---------------------------- MODULE Spec2Model ----------------------------
(***************************************************************************)
(* GMC (Geometric Multimodal Contrastive learning) model of                *)
(* src/multivae/models/gmc/gmc_model.py: validated construction, the       *)
(* setters, encode, forward and the infonce loss.                          *)
(*                                                                         *)
(* Numbers.  Embedding entries are small naturals.  exp(x / temperature)   *)
(* is computed exactly as 2^(temperature * x): the variable temperature    *)
(* holds the integer t for which the real temperature is 1 / (t * ln 2).   *)
(* A value -log(q), q a positive rational, is held exactly as the vector   *)
(* of prime exponents of 1/q (the logarithms of the primes are linearly    *)
(* independent over the rationals, so two such vectors denote the same     *)
(* real number iff they are equal).                                        *)
(***************************************************************************)
EXTENDS Integers, Sequences, FiniteSets, TLC

VARIABLES
    pc,                       \* "new" | "ready" | "returned" | "failed" | "loss" | "done"
    n_modalities,             \* self.n_modalities
    latent_dim,               \* self.latent_dim (config.embedding_dim)
    common_dim,               \* self.common_dim
    temperature,              \* self.temperature
    use_all_singular_values,  \* self.use_all_singular_values
    networks,                 \* self.networks: modality name -> encoder
    joint_encoder,            \* self.joint_encoder
    shared_encoder,           \* self.shared_encoder
    last                      \* the call in progress or just returned: arguments, calls made, result

vars ==
    << pc, n_modalities, latent_dim, common_dim, temperature,
       use_all_singular_values, networks, joint_encoder, shared_encoder, last >>

fields ==
    << n_modalities, latent_dim, common_dim, temperature,
       use_all_singular_values, networks, joint_encoder, shared_encoder >>

-----------------------------------------------------------------------------
(* Bounds and input sets *)

MaxBatch ==
    2

Names ==
    {"a", "all"}

CondMods ==
    Names \cup {"zz"}

Dims ==
    {1, 2}

Temperatures ==
    {1, 2}

EmbVals ==
    {0, 1}

\* config.use_all_singular_values: stored by __init__ and read by nothing.
UseAll ==
    {FALSE}

Bases ==
    {"BaseEncoder", "BaseJointEncoder"}

\* An encoder object: the base classes it is an instance of and its latent_dim.
Objects ==
    [bases : SUBSET Bases, latent_dim : Dims]

Unset ==
    [bases |-> {}, latent_dim |-> 0]

EmptyMap ==
    [m \in {} |-> Unset]

NoTensor ==
    << >>

isinstance(obj, cls) ==
    cls \in obj.bases

\* The orders in which a dict with key set S can be iterated.
RECURSIVE Orders(_)
Orders(S) ==
    IF S = {} THEN { << >> }
    ELSE UNION { { <<m>> \o o : o \in Orders(S \ {m}) } : m \in S }

\* The dicts (name -> value of V) over subsets of Names.
Dicts(V) ==
    UNION { [S -> V] : S \in SUBSET Names }

Max(S) ==
    CHOOSE x \in S : \A y \in S : y <= x

-----------------------------------------------------------------------------
(* The setters *)

\* The loop of set_networks over the remaining keys, acc being self.networks.
RECURSIVE set_networks_loop(_, _, _, _)
set_networks_loop(order, nets, acc, cdim) ==
    IF order = << >> THEN [networks |-> acc, err |-> "none"]
    ELSE LET m == Head(order) IN
         IF ~isinstance(nets[m], "BaseEncoder")
         THEN [networks |-> acc, err |-> "AttributeError"]
         ELSE IF nets[m].latent_dim # cdim
         THEN [networks |-> acc, err |-> "AttributeError"]
         ELSE set_networks_loop(Tail(order), nets, acc @@ (m :> nets[m]), cdim)

\* The error kind of the validation failures raised with "raise".
ConfigurationError ==
    "AttributeError"

\* set_networks: self.networks is reset first, then the count is asserted.
set_networks(nets, order, nmod, cdim) ==
    IF Len(order) # nmod
    THEN [networks |-> EmptyMap, err |-> "AssertionError"]
    ELSE set_networks_loop(order, nets, EmptyMap, cdim)

\* set_shared_encoder: old is the binding before the call.
set_shared_encoder(enc, old, ldim) ==
    IF ~isinstance(enc, "BaseEncoder")
    THEN [shared_encoder |-> old, err |-> "AttributeError"]
    ELSE IF enc.latent_dim # ldim
    THEN [shared_encoder |-> old, err |-> "AttributeError"]
    ELSE [shared_encoder |-> enc, err |-> "none"]

\* set_joint_encoder: the dimension test is "not (latent_dim != common_dim)".
set_joint_encoder(enc, old, cdim) ==
    IF ~isinstance(enc, "BaseJointEncoder")
    THEN [joint_encoder |-> old, err |-> "AttributeError"]
    ELSE IF ~(enc.latent_dim # cdim)
    THEN [joint_encoder |-> old, err |-> "AttributeError"]
    ELSE [joint_encoder |-> enc, err |-> "none"]

-----------------------------------------------------------------------------
(* Tensors and the externally supplied encoders *)

\* The batches of n rows of width d.
Tensors(n, d) ==
    [1..n -> [1..d -> EmbVals]]

\* inputs.data: modality name -> raw tensor, all of one batch size.
Batches ==
    UNION { [S -> Tensors(n, 1)] : S \in (SUBSET Names) \ {{}}, n \in 1..MaxBatch }

BatchSize(data) ==
    Len(data[CHOOSE m \in DOMAIN data : TRUE])

Pad(row, d) ==
    [c \in 1..d |-> IF c <= Len(row) THEN row[c] ELSE 0]

\* enc(x).embedding for a tensor x: a deterministic identity-like map onto
\* enc.latent_dim columns.
Embedding(enc, x) ==
    [i \in 1..Len(x) |-> Pad(x[i], enc.latent_dim)]

\* The fusion of the modalities' rows: the entrywise maximum.
Fuse(data) ==
    [i \in 1..BatchSize(data) |->
        [c \in 1..1 |-> Max({ data[m][i][c] : m \in DOMAIN data })]]

\* joint_encoder(inputs.data).embedding
JointEmbedding(enc, data) ==
    Embedding(enc, Fuse(data))

\* One entry of the log of calls a handler makes: the attribute called (and
\* its key for networks) and the argument, a tensor or the whole mapping.
CallTensor(attr, key, x) ==
    [attr |-> attr, key |-> key, kind |-> "tensor", tensor |-> x, mapping |-> EmptyMap]

CallMapping(attr, key, data) ==
    [attr |-> attr, key |-> key, kind |-> "mapping", tensor |-> NoTensor, mapping |-> data]

-----------------------------------------------------------------------------
(* Exact arithmetic of the loss *)

RECURSIVE Pow2(_)
Pow2(n) ==
    IF n <= 0 THEN 1 ELSE 2 * Pow2(n - 1)

\* torch.exp(x / temperature), temp being the stored temperature.
ExpT(x, temp) ==
    Pow2(temp * x)

MaxNum ==
    2 * MaxBatch * Pow2(Max(Temperatures) * Max(Dims) * Max(EmbVals) * Max(EmbVals))

Primes ==
    { p \in 2..MaxNum : \A d \in 2..(p - 1) : p % d # 0 }

RECURSIVE Mult(_, _)
Mult(n, p) ==
    IF n % p = 0 THEN 1 + Mult(n \div p, p) ELSE 0

\* -log(num / den) as the prime exponents of den / num.
NegLog(num, den) ==
    [p \in Primes |-> Mult(den, p) - Mult(num, p)]

LogZero ==
    [p \in Primes |-> 0]

LogAdd(u, v) ==
    [p \in Primes |-> u[p] + v[p]]

RECURSIVE SumSeq(_)
SumSeq(s) ==
    IF s = << >> THEN 0 ELSE Head(s) + SumSeq(Tail(s))

RECURSIVE LogSum(_)
LogSum(s) ==
    IF s = << >> THEN LogZero ELSE LogAdd(Head(s), LogSum(Tail(s)))

Dot(u, v) ==
    SumSeq([c \in 1..Len(u) |-> u[c] * v[c]])

-----------------------------------------------------------------------------
(* infonce *)

\* torch.exp(torch.mm(out, out.t()) / temperature)
SimMatrix(out, temp) ==
    [i \in 1..Len(out) |-> [j \in 1..Len(out) |-> ExpT(Dot(out[i], out[j]), temp)]]

\* Mutant of Mask: the anti-diagonal is removed instead of the diagonal.
Mask_antidiagonal(n) ==
    [i \in 1..n |-> [j \in 1..n |-> (1 - (IF i + j = n + 1 THEN 1 ELSE 0)) # 0]]

\* (ones - eye(n)).bool()
Mask(n) ==
    [i \in 1..n |-> [j \in 1..n |-> (1 - (IF i = j THEN 1 ELSE 0)) # 0]]

RECURSIVE Flatten(_)
Flatten(M) ==
    IF M = << >> THEN << >> ELSE Head(M) \o Flatten(Tail(M))

\* The entries of flat whose mask entry is set, in order.
RECURSIVE Select(_, _)
Select(flat, fmask) ==
    IF flat = << >> THEN << >>
    ELSE (IF Head(fmask) THEN << Head(flat) >> ELSE << >>)
         \o Select(Tail(flat), Tail(fmask))

\* M.masked_select(mask): a flat tensor of the selected entries, row-major.
masked_select(M, mask) ==
    Select(Flatten(M), Flatten(mask))

\* flat.view(rows, -1)
view(flat, rows) ==
    LET w == Len(flat) \div rows IN
    [i \in 1..rows |-> SubSeq(flat, (i - 1) * w + 1, i * w)]

\* Mutant of PosSim: the division by the temperature is left out.
PosSim_untempered(joint_z, z, temp) ==
    [i \in 1..Len(joint_z) |-> ExpT(Dot(joint_z[i], z[i]), 1)]

\* exp(sum(joint_z * z, dim=-1) / temperature)
PosSim(joint_z, z, temp) ==
    [i \in 1..Len(joint_z) |-> ExpT(Dot(joint_z[i], z[i]), temp)]

\* loss_joint_mod of one modality with its intermediate tensors.
ModLoss(joint_z, z, temp) ==
    LET B == Len(joint_z)
        out == joint_z \o z
        sim == SimMatrix(out, temp)
        masked == view(masked_select(sim, Mask(2 * B)), 2 * B)
        pos1 == PosSim(joint_z, z, temp)
        pos == pos1 \o pos1
        denom == [i \in 1..(2 * B) |-> SumSeq(masked[i])]
    IN [sim |-> sim, masked |-> masked, pos |-> pos, denom |-> denom,
        loss |-> [i \in 1..(2 * B) |-> NegLog(pos[i], denom[i])]]

\* Mutant of Accumulate: the loss vector is assigned, not added.
Accumulate_assign(acc, v) ==
    v

\* joint_mod_loss_sum += loss_joint_mod, acc being the scalar 0 (<< >>) at first.
Accumulate(acc, v) ==
    IF acc = << >> THEN v ELSE [i \in 1..Len(v) |-> LogAdd(acc[i], v[i])]

\* torch.mean(v): the sum of the entries over their number.
Mean(v) ==
    [vec |-> LogSum(v), div |-> Len(v)]

RECURSIVE infonce_loop(_, _, _, _, _)
infonce_loop(order, modalities_z, joint_z, temp, acc) ==
    IF order = << >> THEN acc
    ELSE infonce_loop(Tail(order), modalities_z, joint_z, temp,
             Accumulate(acc, ModLoss(joint_z, modalities_z[Head(order)], temp).loss))

\* infonce: the mean of the accumulated loss vector.
infonce(modalities_z, order, joint_z, temp) ==
    Mean(infonce_loop(order, modalities_z, joint_z, temp, << >>))

\* The tensors of one run of infonce: per modality the similarity matrix, the
\* masked matrix, the positives, the denominators and the loss vector; the
\* accumulated vector; the value returned.
infonce_tensors(modalities_z, order, joint_z, temp) ==
    [mods |-> [m \in DOMAIN modalities_z |-> ModLoss(joint_z, modalities_z[m], temp)],
     sum |-> infonce_loop(order, modalities_z, joint_z, temp, << >>),
     ret |-> infonce(modalities_z, order, joint_z, temp)]

-----------------------------------------------------------------------------
(* Construction *)

Init ==
    /\ pc = "new"
    /\ n_modalities = 0
    /\ latent_dim = 0
    /\ common_dim = 0
    /\ temperature = 0
    /\ use_all_singular_values = FALSE
    /\ networks = EmptyMap
    /\ joint_encoder = Unset
    /\ shared_encoder = Unset
    /\ last = [op |-> "none"]

\* GMC.__init__: the config fields, then the three setters in order; the
\* first setter that raises ends the construction.
GMC_init ==
    /\ pc = "new"
    /\ \E nmod \in 1..Cardinality(Names), edim \in Dims, cdim \in Dims,
          temp \in Temperatures, uasv \in UseAll,
          nets \in Dicts(Objects), jenc \in Objects, senc \in Objects :
       \E order \in Orders(DOMAIN nets) :
          LET rn == set_networks(nets, order, nmod, cdim)
              rj == set_joint_encoder(jenc, Unset, cdim)
              rs == set_shared_encoder(senc, Unset, edim)
              stage == IF rn.err # "none" THEN "set_networks"
                       ELSE IF rj.err # "none" THEN "set_joint_encoder"
                       ELSE IF rs.err # "none" THEN "set_shared_encoder"
                       ELSE "done"
              err == IF rn.err # "none" THEN rn.err
                     ELSE IF rj.err # "none" THEN rj.err
                     ELSE rs.err
          IN /\ n_modalities' = nmod
             /\ latent_dim' = edim
             /\ common_dim' = cdim
             /\ temperature' = temp
             /\ use_all_singular_values' = uasv
             /\ networks' = rn.networks
             /\ joint_encoder' = IF rn.err = "none" THEN rj.joint_encoder ELSE Unset
             /\ shared_encoder' = IF rn.err = "none" /\ rj.err = "none"
                                  THEN rs.shared_encoder ELSE Unset
             /\ pc' = IF stage = "done" THEN "returned" ELSE "failed"
             /\ last' = [op |-> "__init__", stage |-> stage, err |-> err,
                         processors |-> nets, order |-> order,
                         joint |-> jenc, shared |-> senc]

\* A call of set_networks on the constructed model.
SetNetworks ==
    /\ pc = "ready"
    /\ \E nets \in Dicts(Objects) : \E order \in Orders(DOMAIN nets) :
          LET r == set_networks(nets, order, n_modalities, common_dim) IN
          /\ networks' = r.networks
          /\ last' = [op |-> "set_networks", err |-> r.err, processors |-> nets,
                      order |-> order, before |-> networks]
    /\ pc' = "returned"
    /\ UNCHANGED << n_modalities, latent_dim, common_dim, temperature,
                    use_all_singular_values, joint_encoder, shared_encoder >>

\* A call of set_joint_encoder on the constructed model.
SetJointEncoder ==
    /\ pc = "ready"
    /\ \E enc \in Objects :
          LET r == set_joint_encoder(enc, joint_encoder, common_dim) IN
          /\ joint_encoder' = r.joint_encoder
          /\ last' = [op |-> "set_joint_encoder", err |-> r.err, joint |-> enc,
                      before |-> joint_encoder]
    /\ pc' = "returned"
    /\ UNCHANGED << n_modalities, latent_dim, common_dim, temperature,
                    use_all_singular_values, networks, shared_encoder >>

\* A call of set_shared_encoder on the constructed model.
SetSharedEncoder ==
    /\ pc = "ready"
    /\ \E enc \in Objects :
          LET r == set_shared_encoder(enc, shared_encoder, latent_dim) IN
          /\ shared_encoder' = r.shared_encoder
          /\ last' = [op |-> "set_shared_encoder", err |-> r.err, shared |-> enc,
                      before |-> shared_encoder]
    /\ pc' = "returned"
    /\ UNCHANGED << n_modalities, latent_dim, common_dim, temperature,
                    use_all_singular_values, networks, joint_encoder >>

\* Mutant of encode: the registered names are tested before "all".
encode_names_first(data, cond_mod, k) ==
    IF cond_mod \in DOMAIN networks
    THEN IF k = "raises"
         THEN [err |-> "EncoderError",
               calls |-> << CallMapping("networks", cond_mod, data) >>,
               embedding |-> NoTensor]
         ELSE LET h == Embedding(networks[cond_mod], data[k]) IN
              [err |-> "none",
               calls |-> << CallMapping("networks", cond_mod, data),
                            CallTensor("shared_encoder", "", h) >>,
               embedding |-> Embedding(shared_encoder, h)]
    ELSE IF cond_mod = "all"
    THEN LET h == JointEmbedding(joint_encoder, data) IN
         [err |-> "none",
          calls |-> << CallMapping("joint_encoder", "", data),
                       CallTensor("shared_encoder", "", h) >>,
          embedding |-> Embedding(shared_encoder, h)]
    ELSE [err |-> "AttributeError", calls |-> << >>, embedding |-> NoTensor]

\* What a modality encoder may do with the whole mapping inputs.data, an
\* argument outside its contract: raise, or embed one entry of the mapping.
Outcomes(data, cond_mod) ==
    IF cond_mod # "all" /\ cond_mod \in DOMAIN networks
    THEN {"raises"} \cup DOMAIN data
    ELSE {"raises"}

\* encode(inputs, cond_mod).  A modality encoder is handed the whole mapping
\* inputs.data, and k is what it does with it (see Outcomes).
encode(data, cond_mod, k) ==
    IF cond_mod = "all"
    THEN LET h == JointEmbedding(joint_encoder, data) IN
         [err |-> "none",
          calls |-> << CallMapping("joint_encoder", "", data),
                       CallTensor("shared_encoder", "", h) >>,
          embedding |-> Embedding(shared_encoder, h)]
    ELSE IF cond_mod \in DOMAIN networks
    THEN IF k = "raises"
         THEN [err |-> "EncoderError",
               calls |-> << CallMapping("networks", cond_mod, data) >>,
               embedding |-> NoTensor]
         ELSE LET h == Embedding(networks[cond_mod], data[k]) IN
              [err |-> "none",
               calls |-> << CallMapping("networks", cond_mod, data),
                            CallTensor("shared_encoder", "", h) >>,
               embedding |-> Embedding(shared_encoder, h)]
    ELSE [err |-> "AttributeError", calls |-> << >>, embedding |-> NoTensor]

\* A call of encode on the constructed model.
Encode ==
    /\ pc = "ready"
    /\ \E data \in Batches, cond_mod \in CondMods :
       \E k \in Outcomes(data, cond_mod) :
          last' = [op |-> "encode", data |-> data, cond_mod |-> cond_mod,
                   before |-> fields]
                  @@ encode(data, cond_mod, k)
    /\ pc' = "returned"
    /\ UNCHANGED fields

\* The names that iterating over the batch yields: its modalities.
Modalities(data) ==
    DOMAIN data

\* The loop of forward over the modalities of the batch.
RECURSIVE forward_loop(_, _, _, _)
forward_loop(order, data, calls, modalities_z) ==
    IF order = << >>
    THEN [err |-> "none", calls |-> calls, modalities_z |-> modalities_z]
    ELSE LET m == Head(order) IN
         IF m \notin DOMAIN networks
         THEN [err |-> "KeyError", calls |-> calls, modalities_z |-> modalities_z]
         ELSE LET h == Embedding(networks[m], data[m])
                  z == Embedding(shared_encoder, h)
              IN forward_loop(Tail(order), data,
                     calls \o << CallTensor("networks", m, data[m]),
                                 CallTensor("shared_encoder", "", h) >>,
                     modalities_z @@ (m :> z))

NoLoss ==
    [vec |-> LogZero, div |-> 0]

\* Mutant of forward: the joint representation skips the shared head.
forward_joint_unprojected(data, order) ==
    LET r == forward_loop(order, data, << >>, [m \in {} |-> NoTensor]) IN
    IF r.err # "none"
    THEN [err |-> r.err, calls |-> r.calls, modalities_z |-> r.modalities_z,
          joint_z |-> NoTensor, loss |-> NoLoss]
    ELSE LET joint_z == JointEmbedding(joint_encoder, data)
         IN [err |-> "none",
             calls |-> r.calls \o << CallMapping("joint_encoder", "", data),
                                     CallMapping("infonce", "", r.modalities_z) >>,
             modalities_z |-> r.modalities_z,
             joint_z |-> joint_z,
             loss |-> infonce(r.modalities_z, order, joint_z, temperature)]

\* forward(inputs), order being the iteration order of the batch.
forward(data, order) ==
    LET r == forward_loop(order, data, << >>, [m \in {} |-> NoTensor]) IN
    IF r.err # "none"
    THEN [err |-> r.err, calls |-> r.calls, modalities_z |-> r.modalities_z,
          joint_z |-> NoTensor, loss |-> NoLoss]
    ELSE LET joint_h == JointEmbedding(joint_encoder, data)
             joint_z == Embedding(shared_encoder, joint_h)
         IN [err |-> "none",
             calls |-> r.calls \o << CallMapping("joint_encoder", "", data),
                                     CallTensor("shared_encoder", "", joint_h),
                                     CallMapping("infonce", "", r.modalities_z) >>,
             modalities_z |-> r.modalities_z,
             joint_z |-> joint_z,
             loss |-> infonce(r.modalities_z, order, joint_z, temperature)]

\* A call of forward on the constructed model.
Forward ==
    /\ pc = "ready"
    /\ \E data \in Batches : \E order \in Orders(Modalities(data)) :
          last' = [op |-> "forward", data |-> data, order |-> order,
                   before |-> fields]
                  @@ forward(data, order)
    /\ pc' = "returned"
    /\ UNCHANGED fields

\* The call returns (or its exception reaches the caller); the model is idle.
Return ==
    /\ pc = "returned"
    /\ pc' = "ready"
    /\ last' = [op |-> "none"]
    /\ UNCHANGED fields

Next ==
    \/ GMC_init
    \/ SetNetworks
    \/ SetJointEncoder
    \/ SetSharedEncoder
    \/ Encode
    \/ Forward
    \/ Return

Spec ==
    Init /\ [][Next]_vars

-----------------------------------------------------------------------------
(* infonce as a pure function: the arguments are drawn at the start. *)

InitLoss ==
    /\ pc = "loss"
    /\ latent_dim = 1
    /\ temperature \in Temperatures
    /\ common_dim = 0
    /\ use_all_singular_values = FALSE
    /\ networks = EmptyMap
    /\ joint_encoder = Unset
    /\ shared_encoder = Unset
    /\ \E n \in 1..MaxBatch, S \in (SUBSET Names) \ {{}} :
          /\ n_modalities = Cardinality(S)
          /\ \E modalities_z \in [S -> Tensors(n, latent_dim)],
                joint_z \in Tensors(n, latent_dim), order \in Orders(S) :
                last = [op |-> "infonce", modalities_z |-> modalities_z,
                        order |-> order, joint_z |-> joint_z]

\* The call of infonce on the drawn arguments.
Infonce ==
    /\ pc = "loss"
    /\ last' = last @@ infonce_tensors(last.modalities_z, last.order,
                                        last.joint_z, temperature)
    /\ pc' = "done"
    /\ UNCHANGED fields

NextLoss ==
    Infonce

SpecLoss ==
    InitLoss /\ [][NextLoss]_vars

-----------------------------------------------------------------------------
(* Properties of construction and of the setters (specification Spec) *)

\* The joint encoder was tested by the call: __init__ reached set_joint_encoder,
\* or set_joint_encoder was called directly.
JointTested ==
    \/ last.op = "set_joint_encoder"
    \/ /\ last.op = "__init__"
       /\ last.stage \in {"set_joint_encoder", "set_shared_encoder", "done"}

JointRejected ==
    \/ last.op = "set_joint_encoder" /\ last.err = ConfigurationError
    \/ /\ last.op = "__init__"
       /\ last.stage = "set_joint_encoder"
       /\ last.err = ConfigurationError

\* C1: the joint-encoder check fails with the configuration error iff the
\* joint encoder is not a joint encoder or its latent_dim differs from
\* common_dim; it does not fail when it is a joint encoder of latent_dim
\* equal to common_dim.
C1_JointEncoderCheck ==
    JointTested =>
        (JointRejected <=>
            (~isinstance(last.joint, "BaseJointEncoder")
             \/ last.joint.latent_dim # common_dim))

\* The collaborators handed to __init__ satisfy every invariant of the
\* construction contract.
ValidCollaborators ==
    /\ Cardinality(DOMAIN last.processors) = n_modalities
    /\ \A m \in DOMAIN last.processors :
          /\ isinstance(last.processors[m], "BaseEncoder")
          /\ last.processors[m].latent_dim = common_dim
    /\ isinstance(last.shared, "BaseEncoder")
    /\ last.shared.latent_dim = latent_dim
    /\ isinstance(last.joint, "BaseJointEncoder")
    /\ last.joint.latent_dim = common_dim

\* C2: with valid collaborators the construction succeeds and stores exactly
\* the supplied bindings.
C2_ValidConstructionSucceeds ==
    (last.op = "__init__" /\ ValidCollaborators) =>
        /\ last.stage = "done"
        /\ networks = last.processors
        /\ joint_encoder = last.joint
        /\ shared_encoder = last.shared

\* C3: the modality-count mismatch, the modality-encoder dimension mismatch
\* and the shared-head dimension mismatch are all reported with the same error
\* kind, the configuration error.
C3_OneErrorKind ==
    (/\ last.op = "__init__"
     /\ last.stage \in {"set_networks", "set_shared_encoder"}) =>
        last.err = ConfigurationError

\* C10: on a constructed model the stored encoder set has n_modalities entries,
\* each of latent_dim equal to common_dim, and a failing setter leaves its
\* binding as it was before the call.
C10_NetworksInvariant ==
    pc \in {"ready", "returned"} =>
        /\ Cardinality(DOMAIN networks) = n_modalities
        /\ \A m \in DOMAIN networks : networks[m].latent_dim = common_dim
        /\ (last.op = "set_networks" /\ last.err # "none") => networks = last.before
        /\ (last.op = "set_joint_encoder" /\ last.err # "none") =>
               joint_encoder = last.before
        /\ (last.op = "set_shared_encoder" /\ last.err # "none") =>
               shared_encoder = last.before

-----------------------------------------------------------------------------
(* Properties of encode and forward (specification Spec) *)

CallAttrs(calls) ==
    [i \in 1..Len(calls) |-> calls[i].attr]

\* encode took the joint route: the joint encoder on the whole mapping, then
\* the shared head on its output, and no modality encoder.
JointRoute ==
    /\ last.err = "none"
    /\ last.calls = << CallMapping("joint_encoder", "", last.data),
                       CallTensor("shared_encoder", "",
                                  JointEmbedding(joint_encoder, last.data)) >>

\* encode took the route of modality m: networks[m] first, then (when that
\* call returned) the shared head on its output; no other encoder.
ModalityRoute(m) ==
    /\ Len(last.calls) >= 1
    /\ last.calls[1].attr = "networks"
    /\ last.calls[1].key = m
    /\ \/ last.err = "EncoderError" /\ Len(last.calls) = 1
       \/ /\ last.err = "none"
          /\ Len(last.calls) = 2
          /\ last.calls[2].attr = "shared_encoder"
          /\ last.calls[2].kind = "tensor"
          /\ last.embedding = Embedding(shared_encoder, last.calls[2].tensor)

InvalidModality ==
    /\ last.err = "AttributeError"
    /\ last.calls = << >>

\* C4 (as claimed): "all" takes the joint route, every registered name, whatever
\* its spelling, takes its modality's route, and any other selector raises
\* without a call.
C4_EncodeRoutes ==
    last.op = "encode" =>
        /\ last.cond_mod = "all" => JointRoute
        /\ last.cond_mod \in DOMAIN networks => ModalityRoute(last.cond_mod)
        /\ (last.cond_mod # "all" /\ last.cond_mod \notin DOMAIN networks) =>
               InvalidModality

\* C4 (amended): "all" takes the joint route even when a modality is registered
\* under the name "all"; every registered name other than "all" takes its
\* modality's route; any other selector raises without a call.
C4_EncodeRoutesAllFirst ==
    last.op = "encode" =>
        /\ last.cond_mod = "all" => JointRoute
        /\ (last.cond_mod # "all" /\ last.cond_mod \in DOMAIN networks) =>
               ModalityRoute(last.cond_mod)
        /\ (last.cond_mod # "all" /\ last.cond_mod \notin DOMAIN networks) =>
               InvalidModality

\* C4 witness: encode(inputs, "all") on a model with a modality named "all"
\* applied the joint encoder.
C4_Witness ==
    /\ last.op = "encode"
    /\ last.cond_mod = "all"
    /\ "all" \in DOMAIN networks
    /\ Len(last.calls) = 2
    /\ last.calls[1].attr = "joint_encoder"

\* C5: for a registered modality m, encode hands networks[m] the tensor
\* inputs.data[m] alone, and the embedding it returns is the one forward
\* computes as modalities_z[m].
C5_EncodeModalityTensor ==
    (/\ last.op = "encode"
     /\ last.cond_mod # "all"
     /\ last.cond_mod \in DOMAIN networks
     /\ last.cond_mod \in DOMAIN last.data) =>
        /\ last.calls[1] = CallTensor("networks", last.cond_mod,
                                      last.data[last.cond_mod])
        /\ last.err = "none"
        /\ last.embedding =
               Embedding(shared_encoder,
                         Embedding(networks[last.cond_mod], last.data[last.cond_mod]))

\* C9: forward on a batch of registered modalities applies, per modality in
\* batch order, networks[m] to inputs.data[m] and then the shared head; then
\* the joint encoder to inputs.data and the shared head; then infonce once on
\* the embeddings of exactly the batch's modalities; it returns that loss and
\* changes no field of the model.
C9_ForwardSteps ==
    (last.op = "forward" /\ DOMAIN last.data \subseteq DOMAIN networks) =>
        LET n == Len(last.order)
            c == last.calls
        IN /\ last.err = "none"
           /\ Len(c) = 2 * n + 3
           /\ \A i \in 1..n :
                 LET m == last.order[i] IN
                 /\ c[2 * i - 1] = CallTensor("networks", m, last.data[m])
                 /\ c[2 * i] = CallTensor("shared_encoder", "",
                                          Embedding(networks[m], last.data[m]))
           /\ \A m \in DOMAIN last.data :
                 Cardinality({ i \in 1..Len(c) :
                                 c[i].attr = "networks" /\ c[i].key = m }) = 1
           /\ c[2 * n + 1] = CallMapping("joint_encoder", "", last.data)
           /\ c[2 * n + 2] = CallTensor("shared_encoder", "",
                                        JointEmbedding(joint_encoder, last.data))
           /\ c[2 * n + 3].attr = "infonce"
           /\ DOMAIN c[2 * n + 3].mapping = DOMAIN last.data
           /\ Cardinality({ i \in 1..Len(c) : c[i].attr = "joint_encoder" }) = 1
           /\ Cardinality({ i \in 1..Len(c) : c[i].attr = "infonce" }) = 1
           /\ Cardinality({ i \in 1..Len(c) : c[i].attr = "shared_encoder" }) = n + 1
           /\ last.joint_z = Embedding(shared_encoder, c[2 * n + 2].tensor)
           /\ last.loss = infonce(c[2 * n + 3].mapping, last.order, last.joint_z,
                                  temperature)
           /\ fields = last.before

\* C9 witness: forward returned the loss of a batch of two registered
\* modalities.
C9_Witness ==
    /\ last.op = "forward"
    /\ Cardinality(DOMAIN last.data) = 2
    /\ DOMAIN last.data \subseteq DOMAIN networks
    /\ last.err = "none"
    /\ last.loss.vec # LogZero

-----------------------------------------------------------------------------
(* Properties of infonce (specification SpecLoss) *)

\* Two scalars vec/div denote the same real number.
SameReal(a, b) ==
    \A p \in Primes : a.vec[p] * b.div = b.vec[p] * a.div

BatchOf(l) ==
    Len(l.joint_z)

\* Column of the pre-mask matrix that lands in column c of masked row i.
SourceColumn(i, c) ==
    IF c < i THEN c ELSE c + 1

\* The matrix whose entry (i, j) is the pair <<i, j>>.
IndexMatrix(n) ==
    [i \in 1..n |-> [j \in 1..n |-> << i, j >>]]

\* C6: the masked similarity matrix has shape (2B, 2B-1); masked row i holds
\* exactly the entries sim[i][j], j # i, each once and in increasing j; the
\* denominator of row i is their sum, so no diagonal entry and no entry of
\* another row contributes.
C6_DiagonalExcluded ==
    pc = "done" =>
        LET n == 2 * BatchOf(last)
            idx == view(masked_select(IndexMatrix(n), Mask(n)), n)
        IN /\ Len(idx) = n
           /\ \A i \in 1..n :
                 idx[i] = [c \in 1..(n - 1) |-> << i, SourceColumn(i, c) >>]
           /\ \A m \in DOMAIN last.mods :
                 LET t == last.mods[m] IN
                 /\ Len(t.masked) = n
                 /\ \A i \in 1..n :
                       /\ t.masked[i] =
                              [c \in 1..(n - 1) |-> t.sim[i][SourceColumn(i, c)]]
                       /\ t.denom[i] =
                              SumSeq([j \in 1..n |->
                                         IF j = i THEN 0 ELSE t.sim[i][j]])

\* C6 witness: a run with B = 2 in which a diagonal entry differs from an
\* off-diagonal entry of its row.
C6_Witness ==
    /\ pc = "done"
    /\ BatchOf(last) = 2
    /\ \E m \in DOMAIN last.mods :
          /\ last.mods[m].sim[1][1] # last.mods[m].sim[1][4]
          /\ last.mods[m].sim[1][1] # last.mods[m].sim[1][2]

\* The sum of every modality's every row loss.
TotalLoss(l) ==
    LogSum([k \in 1..Len(l.order) |-> LogSum(l.mods[l.order[k]].loss)])

\* C7 (as claimed): the value returned is the sum of all row losses of all
\* modalities divided by 2B * n_modalities.
C7_MeanOverAllTerms ==
    pc = "done" =>
        SameReal(last.ret,
                 [vec |-> TotalLoss(last),
                  div |-> 2 * BatchOf(last) * Cardinality(DOMAIN last.modalities_z)])

\* C7 (amended): the value returned is the sum of all row losses of all
\* modalities divided by 2B.
C7_MeanOverRows ==
    pc = "done" =>
        /\ last.ret.div = 2 * BatchOf(last)
        /\ SameReal(last.ret,
                    [vec |-> TotalLoss(last), div |-> 2 * BatchOf(last)])

\* C7 witness: a run with two modalities and a loss that is not zero.
C7_Witness ==
    /\ pc = "done"
    /\ Cardinality(DOMAIN last.modalities_z) = 2
    /\ BatchOf(last) = 2
    /\ last.ret.vec # LogZero

\* Every modality embedding equals the joint embedding.
Identical(l) ==
    \A m \in DOMAIN l.modalities_z : l.modalities_z[m] = l.joint_z

\* Column of masked row i that holds the positive pair of row i, the entry
\* pairing row i with row (i + B) mod 2B.
PositiveColumn(i, B) ==
    LET j == ((i - 1 + B) % (2 * B)) + 1 IN
    IF j < i THEN j ELSE j - 1

\* Every row's denominator holds the positive-pair term and at least one more
\* term, all terms are positive, and the ratio pos / denominator is below 1.
RowsBelowOne(l) ==
    \A m \in DOMAIN l.mods : \A i \in 1..(2 * BatchOf(l)) :
        LET t == l.mods[m] IN
        /\ t.pos[i] > 0
        /\ \A c \in 1..Len(t.masked[i]) : t.masked[i][c] > 0
        /\ t.masked[i][PositiveColumn(i, BatchOf(l))] = t.pos[i]
        /\ Len(t.masked[i]) >= 2
        /\ t.pos[i] < t.denom[i]

\* The returned loss is finite and strictly positive: a mean of non-negative
\* row losses -log(pos / denom), pos <= denom, that is not zero.
FinitePositive(l) ==
    /\ l.ret.div > 0
    /\ \A m \in DOMAIN l.mods : \A i \in 1..(2 * BatchOf(l)) :
          /\ l.mods[m].pos[i] > 0
          /\ l.mods[m].pos[i] <= l.mods[m].denom[i]
    /\ l.ret.vec # LogZero

\* C8 (as claimed): with every modality embedding equal to the joint embedding
\* the loss is finite and strictly positive for every B >= 1, each row's
\* denominator holding the positive-pair term and a further positive term.
C8_IdenticalLossPositive ==
    (pc = "done" /\ Identical(last)) =>
        /\ RowsBelowOne(last)
        /\ FinitePositive(last)

\* C8 (amended): with every modality embedding equal to the joint embedding,
\* for B >= 2 each row's denominator holds the positive-pair term and further
\* positive terms and the loss is finite and strictly positive; for B = 1 each
\* masked row is the positive-pair term alone, the ratio is 1 and the loss is 0.
C8_IdenticalLossPositiveFromTwo ==
    (pc = "done" /\ Identical(last)) =>
        /\ BatchOf(last) >= 2 => (RowsBelowOne(last) /\ FinitePositive(last))
        /\ BatchOf(last) = 1 =>
              /\ \A m \in DOMAIN last.mods : \A i \in 1..2 :
                    /\ last.mods[m].masked[i] = << last.mods[m].pos[i] >>
                    /\ last.mods[m].denom[i] = last.mods[m].pos[i]
              /\ last.ret.vec = LogZero
              /\ last.ret.div = 2

\* C8 witness: a run with B = 2, two modalities and all embeddings equal to a
\* joint embedding that is not zero.
C8_Witness ==
    /\ pc = "done"
    /\ Identical(last)
    /\ BatchOf(last) = 2
    /\ Cardinality(DOMAIN last.modalities_z) = 2
    /\ \E i \in 1..2 : last.joint_z[i][1] # 0
    /\ last.ret.vec # LogZero

=============================================================================
